---- MODULE Spec2Model ----
(***************************************************************************)
(* Model of secret_store/src/acl_storage.rs: the AclStorage trait, its     *)
(* on-chain implementation OnChainAclStorage (a lazily resolved, cached    *)
(* provider::Contract behind a parking_lot Mutex) and the in-memory        *)
(* DummyAclStorage used by the tests.                                      *)
(***************************************************************************)
EXTENDS Integers, Sequences, FiniteSets, TLC

\* ------------------------------------------------------------------ bounds
\* Longest raw output (in 32-byte words) the ledger call returns.
MaxOutputWords == 2
\* Saturation point of the history counters resolveOk / resolveFailed.
MaxCount == 2
\* Most Arc<Client> handles held outside the storage at one time.
MaxOwners == 2

Threads == {"t1", "t2"}
Publics == {"P1", "P2"}
Documents == {"D1", "D2"}
\* Addresses the registry name may resolve to.
Addresses == {"A1", "A2"}
\* 32-byte words of a raw output: the encodings of false and true, and a word
\* that is no encoding of a boolean (non-zero high bytes).
Words == {"w0", "w1", "wbad"}

\* Option::None of a string-valued slot, and of a record-valued slot.
None == "None"
Null == [none |-> TRUE]
NoThread == "NoThread"
\* A check call that has not reached line 51 yet.
Unset == "unset"

ACL_CHECKER_CONTRACT_REGISTRY_NAME == "secretstore_acl_checker"

\* ------------------------------------------------------------ Result<T, E>
Ok(v) == [ok |-> TRUE, val |-> v]
Err(msg) == [ok |-> FALSE, err |-> msg]
IsOk(r) == r # Null /\ r.ok
IsErr(r) == r # Null /\ ~r.ok

ErrNotConfigured == Err("ACL checker contract is not configured")
ErrArity == Err("Invalid return arity")
ErrType == Err("Invalid type returned")
ErrDecode == Err("InvalidData")
ErrTransport == Err("call_contract failed")

\* ------------------------------------------------------- external helpers
\* ethkey::public_to_address: deterministic, distinct accounts for distinct keys.
public_to_address(p) == IF p = "P1" THEN "acct1" ELSE "acct2"

\* ------------------------------------------------------- provider::Contract
\* The interface loaded by Contract::new: one function.
Interface ==
  {[name |-> "checkPermissions", inputs |-> <<"address", "bytes32">>,
    outputs |-> <<"bool">>]}

\* ethabi::Contract::function
function(name) ==
  IF \E f \in Interface : f.name = name
  THEN Ok(CHOOSE f \in Interface : f.name = name)
  ELSE Err("InvalidName")

\* provider::Contract::new: the binding holds the resolved address (the call
\* trampoline is the fixed closure of line 57).
ContractNew(address) == [address |-> address]

\* Function::encode_call: the function's name and input types (the selector)
\* followed by the tokens in argument order.
encode_call(f, tokens) ==
  IF Len(tokens) = Len(f.inputs)
       /\ \A i \in 1..Len(tokens) : tokens[i].type = f.inputs[i]
  THEN Ok([selector |-> <<f.name, f.inputs>>,
           args |-> [i \in 1..Len(tokens) |-> tokens[i].val]])
  ELSE Err("InvalidData")

\* Decoding of one word as a parameter of the given type.
ValidWord(type, w) == IF type = "bool" THEN w \in {"w0", "w1"} ELSE TRUE
DecodeWord(type, w) ==
  [type |-> type, val |-> IF type = "bool" THEN (w = "w1") ELSE w]

\* Function::decode_output: one token per declared output, read from the
\* leading words of the raw output.
decode_output(f, ws) ==
  IF Len(ws) < Len(f.outputs) THEN ErrDecode
  ELSE IF \E i \in 1..Len(f.outputs) : ~ValidWord(f.outputs[i], ws[i]) THEN ErrDecode
  ELSE Ok([i \in 1..Len(f.outputs) |-> DecodeWord(f.outputs[i], ws[i])])

\* Token::to_bool
to_bool(tok) == IF tok.type = "bool" THEN Ok(tok.val) ELSE ErrType

Reverse(s) == [i \in 1..Len(s) |-> s[Len(s) + 1 - i]]

\* Lines 105-106: reverse the tokens, pop the last (the first token returned)
\* and convert it to a boolean.
PopBool(output) ==
  LET result == Reverse(output) IN
  IF Len(result) = 0 THEN ErrArity
  ELSE to_bool(result[Len(result)])

\* Variant of lines 101-103: the two tokens in the other order.
CallDataSwapped(user, document) ==
  LET call == function("checkPermissions") IN
  IF ~call.ok THEN call
  ELSE encode_call(call.val, <<[type |-> "bytes32", val |-> document],
                               [type |-> "address", val |-> user]>>)

\* Variant of line 100: the function is looked up under the name
\* "checkPermission".
CallDataWrongName(user, document) ==
  LET call == function("checkPermission") IN
  IF ~call.ok THEN call
  ELSE encode_call(call.val, <<[type |-> "address", val |-> user],
                               [type |-> "bytes32", val |-> document]>>)

\* check_permissions up to the call: the call data sent for (user, document).
CallData(user, document) ==
  LET call == function("checkPermissions") IN
  IF ~call.ok THEN call
  ELSE encode_call(call.val, <<[type |-> "address", val |-> user],
                               [type |-> "bytes32", val |-> document]>>)

\* check_permissions after the call: from what do_call returned to the result.
CheckPermissionsResult(ret) ==
  LET call == function("checkPermissions") IN
  IF ~call.ok THEN call
  ELSE IF ~ret.ok THEN ret
  ELSE LET output == decode_output(call.val, ret.val) IN
       IF ~output.ok THEN output ELSE PopBool(output.val)

\* ------------------------------------------------------------ environment
\* Every raw output of at most MaxOutputWords words.
RawOutputs == UNION {[1..n -> Words] : n \in 0..MaxOutputWords}
\* What Client::call_contract may return: a transport error or raw output.
CallResults == {ErrTransport} \cup {Ok(ws) : ws \in RawOutputs}

BoolWord(b) == IF b THEN "w1" ELSE "w0"

\* The answer of a registry contract that allows everything but the pairs in
\* the denial set d.
RegistryAnswer(data, d) ==
  Ok(<<BoolWord(<<data.args[1], data.args[2]>> \notin d)>>)

\* --------------------------------------------------------- DummyAclStorage
\* Variant of prohibit: the entry of public is replaced, not extended.
DummyProhibitReplace(m, p, d) ==
  [q \in DOMAIN m \cup {p} |-> IF q = p THEN {d} ELSE m[q]]

\* Variant of prohibit: a document already in the entry is taken out of it.
DummyProhibitToggle(m, p, d) ==
  IF p \in DOMAIN m
  THEN [m EXCEPT ![p] = IF d \in @ THEN @ \ {d} ELSE @ \cup {d}]
  ELSE [q \in DOMAIN m \cup {p} |-> IF q = p THEN {d} ELSE m[q]]

\* prohibit: entry(public).or_insert_with(Default::default).insert(document)
DummyProhibit(m, p, d) ==
  IF p \in DOMAIN m THEN [m EXCEPT ![p] = @ \cup {d}]
  ELSE [q \in DOMAIN m \cup {p} |-> IF q = p THEN {d} ELSE m[q]]

\* Variant of check: the negation of line 139 is missing.
DummyCheckNoNegation(m, p, d) ==
  Ok(IF p \in DOMAIN m THEN d \in m[p] ELSE TRUE)

\* check: get(public).map(|docs| !docs.contains(document)).unwrap_or(true)
DummyCheck(m, p, d) ==
  Ok(IF p \in DOMAIN m THEN d \notin m[p] ELSE TRUE)

EmptyMap == [q \in {} |-> {}]

\* Line 128, prohibited.write(): granted when no thread reads or writes.
CanWrite(l) == l.writer = NoThread /\ l.readers = {}

\* Variant of line 137: a reader is let in beside a writer.
CanReadBesideWriter(l) == TRUE

\* Line 137, prohibited.read(): granted when no thread writes.
CanRead(l) == l.writer = NoThread

\* ------------------------------------------------------------------- state
VARIABLES
  contract,      \* OnChainAclStorage.contract: Null or a provider::Contract
  lock,          \* holder of the Mutex around contract, or NoThread
  pc,            \* position of each thread's check call
  public,        \* argument of the running check call
  document,      \* argument of the running check call
  res,           \* what this call's registry_address returned ("skipped" if not called)
  call,          \* the call_contract request in flight
  out,           \* what call_contract returned
  result,        \* what the last check call of the thread returned
  registrar,     \* the address the registry name resolves to on chain, or None
  denied,        \* the registry contract's denial set: (account, document) pairs
  prohibited,    \* DummyAclStorage.prohibited
  dummyResult,   \* the last DummyAclStorage::check: its arguments and result
  prohibitCalls, \* history: pairs prohibit was called with
  resolveOk,     \* history: registry_address returns with an address (saturating)
  resolveFailed, \* history: registry_address returns with none (saturating)
  strong,        \* strong count of the Arc<Client>
  weak,          \* weak count of the Arc<Client>
  owners,        \* Arc<Client> handles held outside the storage
  stage,         \* life of the storage: "alive", "client_dropped", "dropped"
  probe,         \* the last direct use of the binding: client alive?, ledger result, result
  sent,          \* history: (public, document, call data) of the calls the ledger served
  dth,           \* DummyAclStorage under threads: each thread's operation and position
  rw,            \* the RwLock around prohibited: its writer and its readers
  returned       \* history: pairs whose prohibit has returned

clientVars == <<strong, weak, owners, stage, probe>>
concVars == <<dth, rw, returned>>

vars == <<contract, lock, pc, public, document, res, call, out, result,
          registrar, denied, prohibited, dummyResult, prohibitCalls,
          resolveOk, resolveFailed, clientVars, sent, concVars>>

onchainVars == <<contract, lock, pc, public, document, res, call, out, result,
                 resolveOk, resolveFailed, clientVars, sent>>
dummyVars == <<prohibited, dummyResult, prohibitCalls, concVars>>
\* What a step of check leaves alone besides the variables it names.
checkFrame == <<dummyVars, sent, strong, owners, stage, probe>>

\* A thread of the double that is in no operation.
DIdle == [pc |-> "idle", op |-> None, public |-> None, document |-> None,
          before |-> FALSE, docs |-> Null, ret |-> Null]

Sat(n) == IF n < MaxCount THEN n + 1 ELSE n

\* Client::registry_address at the latest state
registry_address(name) ==
  IF name = ACL_CHECKER_CONTRACT_REGISTRY_NAME THEN registrar ELSE None

\* OnChainAclStorage::new(client), the caller keeping a handle of its own, and
\* DummyAclStorage::default
Init ==
  /\ contract = Null
  /\ lock = NoThread
  /\ pc = [t \in Threads |-> "idle"]
  /\ public = [t \in Threads |-> None]
  /\ document = [t \in Threads |-> None]
  /\ res = [t \in Threads |-> Unset]
  /\ call = [t \in Threads |-> Null]
  /\ out = [t \in Threads |-> Null]
  /\ result = [t \in Threads |-> Null]
  /\ registrar \in Addresses \cup {None}
  /\ denied = {}
  /\ prohibited = EmptyMap
  /\ dummyResult = Null
  /\ prohibitCalls = {}
  /\ resolveOk = 0
  /\ resolveFailed = 0
  /\ strong = 2
  /\ weak = 0
  /\ owners = 1
  /\ stage = "alive"
  /\ probe = Null
  /\ sent = {}
  /\ dth = [t \in Threads |-> DIdle]
  /\ rw = [writer |-> NoThread, readers |-> {}]
  /\ returned = {}

\* ------------------------------------------------ OnChainAclStorage::check
\* A thread calls check(public, document).
Start(t) ==
  /\ stage = "alive"
  /\ pc[t] \in {"idle", "done"}
  /\ \E p \in Publics, d \in Documents :
       /\ public' = [public EXCEPT ![t] = p]
       /\ document' = [document EXCEPT ![t] = d]
  /\ pc' = [pc EXCEPT ![t] = "wait"]
  /\ result' = [result EXCEPT ![t] = Null]
  /\ UNCHANGED <<contract, lock, res, call, out, registrar, denied,
                 resolveOk, resolveFailed>>
  /\ UNCHANGED <<weak, checkFrame>>

\* Variant of line 50: the binding is read without waiting for the lock.
AcquireNoWait(t) ==
  /\ pc[t] = "wait"
  /\ lock' = t
  /\ pc' = [pc EXCEPT ![t] = "locked"]
  /\ UNCHANGED <<contract, public, document, res, call, out, result, registrar,
                 denied, resolveOk, resolveFailed>>
  /\ UNCHANGED <<weak, checkFrame>>

\* Line 50: self.contract.lock()
Acquire(t) ==
  /\ pc[t] = "wait"
  /\ lock = NoThread
  /\ lock' = t
  /\ pc' = [pc EXCEPT ![t] = "locked"]
  /\ UNCHANGED <<contract, public, document, res, call, out, result, registrar,
                 denied, resolveOk, resolveFailed>>
  /\ UNCHANGED <<weak, checkFrame>>

\* Variants of the test of line 51: resolve on every call; resolve again when
\* the registry entry no longer matches the binding.
NeedsResolveAlways(c) == TRUE
NeedsResolveStale(c) == c = Null \/ c.address # registrar

\* Line 51: !contract.is_some()
NeedsResolve(c) == c = Null

\* Lines 51-52: test the binding; invoke registry_address when it is empty.
TestSome(t) ==
  /\ pc[t] = "locked"
  /\ IF NeedsResolve(contract)
     THEN /\ pc' = [pc EXCEPT ![t] = "resolving"]
          /\ res' = res
     ELSE /\ pc' = [pc EXCEPT ![t] = "dispatch"]
          /\ res' = [res EXCEPT ![t] = "skipped"]
  /\ UNCHANGED <<contract, lock, public, document, call, out, result, registrar,
                 denied, resolveOk, resolveFailed>>
  /\ UNCHANGED <<weak, checkFrame>>

\* Variants of lines 52-58: the outcome is not stored; a failed resolution is
\* stored as a binding without an address.
ResolvedDropped(r) == Null
ResolvedNegative(r) == ContractNew(r)

\* Lines 52-58: registry_address(..).and_then(|addr| Some(Contract::new(addr, ..)))
Resolved(r) == IF r = None THEN Null ELSE ContractNew(r)

\* Lines 52-58: registry_address returns and its outcome is stored in the
\* binding; the closure of a new binding takes a Weak of the client (line 56).
ResolveReturn(t) ==
  /\ pc[t] = "resolving"
  /\ LET r == registry_address(ACL_CHECKER_CONTRACT_REGISTRY_NAME) IN
       /\ contract' = Resolved(r)
       /\ res' = [res EXCEPT ![t] = r]
       /\ resolveOk' = IF r # None THEN Sat(resolveOk) ELSE resolveOk
       /\ resolveFailed' = IF r = None THEN Sat(resolveFailed) ELSE resolveFailed
       /\ weak' = IF r # None THEN weak + 1 ELSE weak
  /\ pc' = [pc EXCEPT ![t] = "dispatch"]
  /\ UNCHANGED <<lock, public, document, call, out, result, registrar, denied>>
  /\ UNCHANGED checkFrame

\* Variant: the lock is released on the Ok path only.
UnlockOnOk(t, r) == IF r.ok THEN NoThread ELSE t

\* The guard of line 50 is dropped when check returns r.
Unlock(t, r) == NoThread

\* Variant of line 104: the call goes to the address the registry names now,
\* not to the address held by the binding.
DispatchAtRegistry(t) ==
  /\ pc[t] = "dispatch"
  /\ IF contract # Null
     THEN LET data == CallData(public_to_address(public[t]), document[t]) IN
          /\ call' = [call EXCEPT ![t] =
                [block |-> "Latest", address |-> registrar, data |-> data.val]]
          /\ pc' = [pc EXCEPT ![t] = "calling"]
          /\ UNCHANGED <<lock, result, public, document, res>>
     ELSE /\ result' = [result EXCEPT ![t] = ErrNotConfigured]
          /\ lock' = NoThread
          /\ pc' = [pc EXCEPT ![t] = "done"]
          /\ public' = [public EXCEPT ![t] = None]
          /\ document' = [document EXCEPT ![t] = None]
          /\ res' = [res EXCEPT ![t] = Unset]
          /\ call' = call
  /\ UNCHANGED <<contract, out, registrar, denied, resolveOk, resolveFailed>>
  /\ UNCHANGED <<weak, checkFrame>>

\* Variant of lines 100-103: the call data carries a mark that tells the
\* first call served by the ledger from the later ones.
EncodedCallStamped(t) ==
  LET data == CallData(public_to_address(public[t]), document[t]) IN
  [data EXCEPT !.val.args = Append(@, IF sent = {} THEN "first" ELSE "later")]

\* Lines 61 and 100-103: the call data of the check that thread t runs.
EncodedCall(t) == CallData(public_to_address(public[t]), document[t])

\* Lines 60-66 and 100-104: with a binding, derive the account, encode the call
\* and hand it to do_call (call_contract at BlockId::Latest, at the binding's
\* address); without one, return the "not configured" error.
Dispatch(t) ==
  /\ pc[t] = "dispatch"
  /\ IF contract # Null
     THEN LET data == EncodedCall(t) IN
          IF data.ok
          THEN /\ call' = [call EXCEPT ![t] =
                     [block |-> "Latest", address |-> contract.address,
                      data |-> data.val]]
               /\ pc' = [pc EXCEPT ![t] = "calling"]
               /\ UNCHANGED <<lock, result, public, document, res>>
          ELSE /\ result' = [result EXCEPT ![t] = data]
               /\ lock' = Unlock(t, data)
               /\ pc' = [pc EXCEPT ![t] = "done"]
               /\ public' = [public EXCEPT ![t] = None]
               /\ document' = [document EXCEPT ![t] = None]
               /\ res' = [res EXCEPT ![t] = Unset]
               /\ call' = call
     ELSE /\ result' = [result EXCEPT ![t] = ErrNotConfigured]
          /\ lock' = Unlock(t, ErrNotConfigured)
          /\ pc' = [pc EXCEPT ![t] = "done"]
          /\ public' = [public EXCEPT ![t] = None]
          /\ document' = [document EXCEPT ![t] = None]
          /\ res' = [res EXCEPT ![t] = Unset]
          /\ call' = call
  /\ UNCHANGED <<contract, out, registrar, denied, resolveOk, resolveFailed>>
  /\ UNCHANGED <<weak, checkFrame>>

ErrNoClient == Err("No client!")

\* Variant of line 57: the client is used without the upgrade being tested.
do_callUnchecked(s, o) == o

\* Line 57, the closure handed to Contract::new: upgrade the Weak (it fails
\* when the strong count s is 0), then call_contract, which returns o.
do_call(s, o) == IF s = 0 THEN ErrNoClient ELSE o

\* Line 104: (self.do_call)(..) returns, the ledger's result being in S.
CallReturnFrom(t, S) ==
  /\ pc[t] = "calling"
  /\ \E o \in S : out' = [out EXCEPT ![t] = do_call(strong, o)]
  /\ pc' = [pc EXCEPT ![t] = "decode"]
  /\ UNCHANGED <<contract, lock, public, document, res, call, result, registrar,
                 denied, resolveOk, resolveFailed, clientVars>>

\* The ledger returns anything: a transport error or any raw output.
CallReturn(t) ==
  /\ CallReturnFrom(t, CallResults)
  /\ UNCHANGED <<dummyVars, sent>>

\* Variant of lines 104-106: a failed call or decode is tried again.
DecodeRetry(t) ==
  /\ pc[t] = "decode"
  /\ IF CheckPermissionsResult(out[t]).ok
     THEN /\ result' = [result EXCEPT ![t] = CheckPermissionsResult(out[t])]
          /\ lock' = NoThread
          /\ pc' = [pc EXCEPT ![t] = "done"]
          /\ public' = [public EXCEPT ![t] = None]
          /\ document' = [document EXCEPT ![t] = None]
          /\ res' = [res EXCEPT ![t] = Unset]
          /\ call' = [call EXCEPT ![t] = Null]
     ELSE /\ pc' = [pc EXCEPT ![t] = "calling"]
          /\ UNCHANGED <<result, lock, public, document, res, call>>
  /\ out' = [out EXCEPT ![t] = Null]
  /\ UNCHANGED <<contract, registrar, denied, resolveOk, resolveFailed>>
  /\ UNCHANGED <<weak, checkFrame>>

\* Variant of lines 62-63: a check that ends in an Error forgets the binding.
DecodeForget(t) ==
  /\ pc[t] = "decode"
  /\ result' = [result EXCEPT ![t] = CheckPermissionsResult(out[t])]
  /\ lock' = NoThread
  /\ pc' = [pc EXCEPT ![t] = "done"]
  /\ public' = [public EXCEPT ![t] = None]
  /\ document' = [document EXCEPT ![t] = None]
  /\ res' = [res EXCEPT ![t] = Unset]
  /\ call' = [call EXCEPT ![t] = Null]
  /\ out' = [out EXCEPT ![t] = Null]
  /\ IF CheckPermissionsResult(out[t]).ok
     THEN UNCHANGED <<contract, weak>>
     ELSE contract' = Null /\ weak' = weak - 1
  /\ UNCHANGED <<registrar, denied, resolveOk, resolveFailed>>
  /\ UNCHANGED checkFrame

\* Lines 104-106 and 62-63: decode the output and return from check.
Decode(t) ==
  /\ pc[t] = "decode"
  /\ result' = [result EXCEPT ![t] = CheckPermissionsResult(out[t])]
  /\ lock' = Unlock(t, CheckPermissionsResult(out[t]))
  /\ pc' = [pc EXCEPT ![t] = "done"]
  /\ public' = [public EXCEPT ![t] = None]
  /\ document' = [document EXCEPT ![t] = None]
  /\ res' = [res EXCEPT ![t] = Unset]
  /\ call' = [call EXCEPT ![t] = Null]
  /\ out' = [out EXCEPT ![t] = Null]
  /\ UNCHANGED <<contract, registrar, denied, resolveOk, resolveFailed>>
  /\ UNCHANGED <<weak, checkFrame>>

\* ------------------------------------------------------------- environment
\* The registry name is registered, re-pointed or unregistered on chain.
RegistryChange ==
  /\ \E a \in Addresses \cup {None} :
       /\ a # registrar
       /\ registrar' = a
  /\ UNCHANGED <<denied>>
  /\ UNCHANGED onchainVars
  /\ UNCHANGED dummyVars

\* --------------------------------------------------------- DummyAclStorage
\* DummyAclStorage::prohibit(p, d)
ProhibitOp(p, d) ==
  /\ prohibited' = DummyProhibit(prohibited, p, d)
  /\ prohibitCalls' = prohibitCalls \cup {<<p, d>>}

\* DummyAclStorage::check(p, d)
DummyCheckOp(p, d) ==
  dummyResult' = [public |-> p, document |-> d,
                  result |-> DummyCheck(prohibited, p, d)]

Prohibit ==
  /\ \E p \in Publics, d \in Documents : ProhibitOp(p, d)
  /\ UNCHANGED <<dummyResult, registrar, denied, concVars>>
  /\ UNCHANGED onchainVars

DummyCheckCall ==
  /\ \E p \in Publics, d \in Documents : DummyCheckOp(p, d)
  /\ UNCHANGED <<prohibited, prohibitCalls, registrar, denied, concVars>>
  /\ UNCHANGED onchainVars

\* ------------------------------------------------ the two run side by side
\* A denial is entered in the double and, for the account of p, in the
\* registry contract.
Deny ==
  /\ \E p \in Publics, d \in Documents :
       /\ ProhibitOp(p, d)
       /\ denied' = denied \cup {<<public_to_address(p), d>>}
  /\ UNCHANGED <<dummyResult, registrar, concVars>>
  /\ UNCHANGED onchainVars

\* The ledger call reaches the registry contract, which answers from its
\* denial set; the double is asked the same question at the same moment.
PairedCallReturn(t) ==
  /\ CallReturnFrom(t, {RegistryAnswer(call[t].data, denied)})
  /\ DummyCheckOp(public[t], document[t])
  /\ UNCHANGED <<prohibited, prohibitCalls, concVars, sent>>

\* ------------------------------------------------------------ specifications
\* The on-chain storage under concurrent check calls, with the registry
\* entry changing underneath it and the ledger returning anything.
Next ==
  \/ \E t \in Threads :
       \/ Start(t)
       \/ Acquire(t)
       \/ TestSome(t)
       \/ ResolveReturn(t)
       \/ Dispatch(t)
       \/ CallReturn(t)
       \/ Decode(t)
  \/ RegistryChange

Spec == Init /\ [][Next]_vars

\* One ledger result for each way check_permissions can end after the call:
\* a transport error, an output too short to decode, an undecodable word, and
\* the two booleans.
ReturnPaths ==
  {ErrTransport, Ok(<<>>), Ok(<<"wbad">>), Ok(<<"w0">>), Ok(<<"w1">>)}

\* The ledger call returns along one of the return paths.
PathCallReturn(t) ==
  /\ CallReturnFrom(t, ReturnPaths)
  /\ UNCHANGED <<dummyVars, sent>>

\* The steps of a check call that holds the lock.
Running(t) ==
  \/ TestSome(t)
  \/ ResolveReturn(t)
  \/ Dispatch(t)
  \/ PathCallReturn(t)
  \/ Decode(t)

\* Concurrent check calls, the registry entry changing, the ledger returning
\* along every return path.
NextFair ==
  \/ \E t \in Threads :
       \/ Start(t)
       \/ Acquire(t)
       \/ TestSome(t)
       \/ ResolveReturn(t)
       \/ Dispatch(t)
       \/ PathCallReturn(t)
       \/ Decode(t)
  \/ RegistryChange

\* A thread that holds the lock keeps running and the ledger client returns
\* (weak fairness); the parking_lot Mutex hands the lock to each waiter
\* eventually, although it is taken again and again meanwhile (strong
\* fairness).
Fairness ==
  \A t \in Threads :
    /\ SF_vars(Acquire(t))
    /\ WF_vars(Running(t))

FairSpec == Init /\ [][NextFair]_vars /\ Fairness

\* The ledger call returns along one of the return paths and the call data it
\* was given is recorded with the arguments of the check.
LoggedCallReturn(t) ==
  /\ CallReturnFrom(t, ReturnPaths)
  /\ sent' = sent \cup {<<public[t], document[t], call[t].data>>}
  /\ UNCHANGED dummyVars

\* Concurrent check calls with a record of what was sent, the registry entry
\* changing meanwhile.
NextEnc ==
  \/ \E t \in Threads :
       \/ Start(t)
       \/ Acquire(t)
       \/ TestSome(t)
       \/ ResolveReturn(t)
       \/ Dispatch(t)
       \/ LoggedCallReturn(t)
       \/ Decode(t)
  \/ RegistryChange

SpecEnc == Init /\ [][NextEnc]_vars

\* The in-memory double on its own.
NextDummy ==
  \/ Prohibit
  \/ DummyCheckCall

SpecDummy == Init /\ [][NextDummy]_vars

\* The on-chain storage and the double side by side: the registry name is
\* registered, the ledger call reaches a registry contract that holds the
\* same denials as the double.
InitPair == Init /\ registrar # None

NextPair ==
  \/ \E t \in Threads :
       \/ Start(t)
       \/ Acquire(t)
       \/ TestSome(t)
       \/ ResolveReturn(t)
       \/ Dispatch(t)
       \/ PairedCallReturn(t)
       \/ Decode(t)
  \/ Deny

SpecPair == InitPair /\ [][NextPair]_vars

\* The two implementations of AclStorage in one process, each used on its own:
\* check calls of the storage along every return path, prohibit and check
\* calls of the double.
NextFrame ==
  \/ \E t \in Threads :
       \/ Start(t)
       \/ Acquire(t)
       \/ TestSome(t)
       \/ ResolveReturn(t)
       \/ Dispatch(t)
       \/ PathCallReturn(t)
       \/ Decode(t)
  \/ Prohibit
  \/ DummyCheckCall

SpecFrame == Init /\ [][NextFrame]_vars

\* ------------------------------------------ DummyAclStorage under threads
\* A thread calls prohibit or check of the double; for a check it is noted
\* whether a prohibit of the same pair had returned by then.
DStart(t) ==
  /\ dth[t].pc \in {"idle", "done"}
  /\ \E o \in {"prohibit", "check"}, p \in Publics, d \in Documents :
       /\ dth' = [dth EXCEPT ![t] =
             [pc |-> "wait", op |-> o, public |-> p, document |-> d,
              before |-> (o = "check" /\ <<p, d>> \in returned),
              docs |-> Null, ret |-> Null]]
       /\ prohibitCalls' = IF o = "prohibit" THEN prohibitCalls \cup {<<p, d>>}
                           ELSE prohibitCalls
  /\ UNCHANGED <<prohibited, dummyResult, rw, returned, registrar, denied>>
  /\ UNCHANGED onchainVars

\* Line 128: self.prohibited.write()
DLockWrite(t) ==
  /\ dth[t].pc = "wait"
  /\ dth[t].op = "prohibit"
  /\ CanWrite(rw)
  /\ rw' = [rw EXCEPT !.writer = t]
  /\ dth' = [dth EXCEPT ![t].pc = "entry"]
  /\ UNCHANGED <<prohibited, dummyResult, prohibitCalls, returned, registrar, denied>>
  /\ UNCHANGED onchainVars

\* Lines 129-130: .entry(public).or_insert_with(Default::default)
DEntry(t) ==
  /\ dth[t].pc = "entry"
  /\ prohibited' =
       IF dth[t].public \in DOMAIN prohibited THEN prohibited
       ELSE [q \in DOMAIN prohibited \cup {dth[t].public} |->
               IF q = dth[t].public THEN {} ELSE prohibited[q]]
  /\ dth' = [dth EXCEPT ![t].pc = "insert"]
  /\ UNCHANGED <<dummyResult, prohibitCalls, rw, returned, registrar, denied>>
  /\ UNCHANGED onchainVars

\* Line 131: .insert(document); the write guard is dropped at the end of the
\* statement.
DInsert(t) ==
  /\ dth[t].pc = "insert"
  /\ prohibited' = [prohibited EXCEPT ![dth[t].public] = @ \cup {dth[t].document}]
  /\ rw' = [rw EXCEPT !.writer = NoThread]
  /\ dth' = [dth EXCEPT ![t].pc = "returning"]
  /\ UNCHANGED <<dummyResult, prohibitCalls, returned, registrar, denied>>
  /\ UNCHANGED onchainVars

\* Line 137: self.prohibited.read()
DLockRead(t) ==
  /\ dth[t].pc = "wait"
  /\ dth[t].op = "check"
  /\ CanRead(rw)
  /\ rw' = [rw EXCEPT !.readers = @ \cup {t}]
  /\ dth' = [dth EXCEPT ![t].pc = "get"]
  /\ UNCHANGED <<prohibited, dummyResult, prohibitCalls, returned, registrar, denied>>
  /\ UNCHANGED onchainVars

\* Line 138: .get(public)
DGet(t) ==
  /\ dth[t].pc = "get"
  /\ dth' = [dth EXCEPT ![t].pc = "contains",
                        ![t].docs = IF dth[t].public \in DOMAIN prohibited
                                    THEN [some |-> prohibited[dth[t].public]]
                                    ELSE Null]
  /\ UNCHANGED <<prohibited, dummyResult, prohibitCalls, rw, returned, registrar, denied>>
  /\ UNCHANGED onchainVars

\* Lines 139-140: .map(|docs| !docs.contains(document)).unwrap_or(true); the
\* read guard is dropped at the end of the expression.
DContains(t) ==
  /\ dth[t].pc = "contains"
  /\ dth' = [dth EXCEPT ![t].pc = "returning",
                        ![t].ret = Ok(IF dth[t].docs # Null
                                      THEN dth[t].document \notin dth[t].docs.some
                                      ELSE TRUE),
                        ![t].docs = Null]
  /\ rw' = [rw EXCEPT !.readers = @ \ {t}]
  /\ UNCHANGED <<prohibited, dummyResult, prohibitCalls, returned, registrar, denied>>
  /\ UNCHANGED onchainVars

\* Lines 132 and 141: the call returns to its caller.
DReturn(t) ==
  /\ dth[t].pc = "returning"
  /\ dth' = [dth EXCEPT ![t].pc = "done"]
  /\ returned' = IF dth[t].op = "prohibit"
                 THEN returned \cup {<<dth[t].public, dth[t].document>>}
                 ELSE returned
  /\ UNCHANGED <<prohibited, dummyResult, prohibitCalls, rw, registrar, denied>>
  /\ UNCHANGED onchainVars

NextConc ==
  \E t \in Threads :
    \/ DStart(t)
    \/ DLockWrite(t)
    \/ DEntry(t)
    \/ DInsert(t)
    \/ DLockRead(t)
    \/ DGet(t)
    \/ DContains(t)
    \/ DReturn(t)

SpecConc == Init /\ [][NextConc]_vars

\* The client handle and the life of the storage.  The caller of new keeps
\* handles of the client and clones or drops them at will.
OwnerClone ==
  /\ owners > 0
  /\ owners < MaxOwners
  /\ owners' = owners + 1
  /\ strong' = strong + 1
  /\ UNCHANGED <<contract, lock, pc, public, document, res, call, out, result,
                 registrar, denied, resolveOk, resolveFailed, weak, stage, probe,
                 sent, dummyVars>>

OwnerDrop ==
  /\ owners > 0
  /\ owners' = owners - 1
  /\ strong' = strong - 1
  /\ UNCHANGED <<contract, lock, pc, public, document, res, call, out, result,
                 registrar, denied, resolveOk, resolveFailed, weak, stage, probe,
                 sent, dummyVars>>

\* Lines 32-37: the storage is dropped once no check borrows it; its fields go
\* in declaration order, the client handle (line 34) first.
StorageDropClient ==
  /\ stage = "alive"
  /\ \A t \in Threads : pc[t] \in {"idle", "done"}
  /\ stage' = "client_dropped"
  /\ strong' = strong - 1
  /\ UNCHANGED <<contract, lock, pc, public, document, res, call, out, result,
                 registrar, denied, resolveOk, resolveFailed, weak, owners, probe,
                 sent, dummyVars>>

\* Line 36: then the binding is dropped, and with it the Weak in its closure.
StorageDropContract ==
  /\ stage = "client_dropped"
  /\ stage' = "dropped"
  /\ contract' = Null
  /\ weak' = IF contract # Null THEN weak - 1 ELSE weak
  /\ UNCHANGED <<lock, pc, public, document, res, call, out, result,
                 registrar, denied, resolveOk, resolveFailed, strong, owners, probe,
                 sent, dummyVars>>

\* Lines 98-107 on the binding as it stands, outside any check call of the
\* storage: its closure (line 57) is invoked and the ledger, if reached,
\* returns o.
Trampoline ==
  /\ contract # Null
  /\ lock = NoThread
  /\ \E o \in ReturnPaths :
       probe' = [alive |-> strong > 0, ledger |-> o,
                 result |-> CheckPermissionsResult(do_call(strong, o))]
  /\ UNCHANGED <<contract, lock, pc, public, document, res, call, out, result,
                 registrar, denied, resolveOk, resolveFailed, strong, weak, owners,
                 stage, sent, dummyVars>>

NextClient ==
  \/ \E t \in Threads :
       \/ Start(t)
       \/ Acquire(t)
       \/ TestSome(t)
       \/ ResolveReturn(t)
       \/ Dispatch(t)
       \/ PathCallReturn(t)
       \/ Decode(t)
  \/ OwnerClone
  \/ OwnerDrop
  \/ StorageDropClient
  \/ StorageDropContract
  \/ Trampoline

SpecClient == Init /\ [][NextClient]_vars

\* ------------------------------------------------------------------ claims
Critical == {"locked", "resolving", "dispatch", "calling", "decode"}

\* C1: once registry_address has returned an address, no check call invokes
\* it again, and at most one invocation ever returns an address.
C1_ResolveAtMostOnce ==
  /\ [](resolveOk <= 1)
  /\ [][resolveOk > 0 =>
        \A t \in Threads : pc'[t] = "resolving" => pc[t] = "resolving"]_vars

\* A later check call found the binding resolved and skipped resolution,
\* after the registry entry had moved away from the address first returned.
C1_Witness ==
  /\ resolveOk = 1
  /\ contract # Null
  /\ registrar # contract.address
  /\ \E t \in Threads : pc[t] = "dispatch" /\ res[t] = "skipped"
  /\ \E t \in Threads : pc[t] = "done" /\ IsOk(result[t])

\* C2: once populated, the binding is never cleared and its address never
\* changes, whatever the calls return and whatever the registry entry becomes.
C2_BindingNeverChanges ==
  [][contract # Null => contract' = contract]_vars

\* The binding is resolved, the registry entry now names another address (or
\* none), and a check call has returned an Error since.
C2_Witness ==
  /\ contract # Null
  /\ registrar # contract.address
  /\ \E t \in Threads : pc[t] = "done" /\ IsErr(result[t])
  /\ \E t \in Threads : pc[t] = "dispatch" /\ res[t] = "skipped"

\* C3: while no resolution has returned an address every check call returns
\* the "not configured" Error; a call whose resolution returns none returns
\* that Error, and a call that has a binding goes on to the remote call and
\* does not return it.
C3_NotConfiguredUntilResolved ==
  /\ [](resolveOk = 0 =>
        \A t \in Threads : pc[t] = "done" => result[t] = ErrNotConfigured)
  /\ [][\A t \in Threads :
          /\ (pc[t] = "dispatch" /\ pc'[t] # "dispatch") =>
                IF res[t] = None
                THEN pc'[t] = "done" /\ result'[t] = ErrNotConfigured
                ELSE pc'[t] = "calling"
          /\ (pc[t] = "decode" /\ pc'[t] = "done") =>
                /\ result'[t] # ErrNotConfigured
                /\ (out[t] = ErrTransport => result'[t] = ErrTransport)
                /\ (out[t] = Ok(<<"w1">>) => result'[t] = Ok(TRUE))
                /\ (out[t] = Ok(<<"w0">>) => result'[t] = Ok(FALSE))]_vars

\* A call returned "not configured"; then the name was registered and the
\* next call resolved it and got past the binding test to the remote call.
C3_Witness ==
  \E t, u \in Threads :
    /\ pc[t] = "done" /\ result[t] = ErrNotConfigured
    /\ pc[u] = "calling" /\ res[u] \in Addresses
    /\ resolveFailed > 0

\* C4: a resolution that returns none leaves the binding empty, and a check
\* call that finds the binding empty invokes registry_address, however many
\* resolutions have failed before.
C4_RetryWhileUnresolved ==
  [][\A t \in Threads :
       /\ (pc[t] = "resolving" /\ pc'[t] = "dispatch" /\ res'[t] = None) =>
             contract' = Null
       /\ (pc[t] = "locked" /\ contract = Null /\ pc'[t] # "locked") =>
             pc'[t] = "resolving"]_vars

\* After MaxCount failed resolutions a call is resolving once more.
C4_Witness ==
  /\ resolveFailed = MaxCount
  /\ contract = Null
  /\ \E t \in Threads : pc[t] = "resolving"

\* C5 (as stated): check returns Ok(true) exactly when the remote call for
\* (account of identity, document) returned exactly the encoding of true,
\* Ok(false) exactly when it returned exactly the encoding of false, and an
\* Error for every resolution, transport or decoding failure.
C5_DecisionExactlyRemoteAnswer ==
  [][\A t \in Threads :
       /\ (pc[t] = "dispatch" /\ pc'[t] = "done") => IsErr(result'[t])
       /\ (pc[t] = "decode" /\ pc'[t] = "done") =>
             /\ call[t].data.args = <<public_to_address(public[t]), document[t]>>
             /\ result'[t] = Ok(TRUE) <=> out[t] = Ok(<<"w1">>)
             /\ result'[t] = Ok(FALSE) <=> out[t] = Ok(<<"w0">>)
             /\ out[t] \notin {Ok(<<"w1">>), Ok(<<"w0">>)} => IsErr(result'[t])]_vars

\* C6 (as stated): an output that is not exactly one value of boolean type
\* (no value, more than one value, one non-boolean value) makes check return
\* an Error.
C6_ExactlyOneBoolOrError ==
  [][\A t \in Threads :
       (/\ pc[t] = "decode" /\ pc'[t] = "done"
        /\ out[t].ok
        /\ ~(Len(out[t].val) = 1 /\ out[t].val[1] \in {"w0", "w1"}))
       => IsErr(result'[t])]_vars

\* C7: the double's check(P, D) is Ok(false) if prohibit(P, D) was called
\* before and Ok(true) otherwise, for every pair, after any sequence of
\* prohibit and check calls; check never returns an Error.
C7_DummyDefaultAllow ==
  /\ \A p \in Publics, d \in Documents :
       DummyCheck(prohibited, p, d) = Ok(<<p, d>> \notin prohibitCalls)
  /\ dummyResult # Null =>
       /\ IsOk(dummyResult.result)
       /\ dummyResult.result = Ok(FALSE) =>
            <<dummyResult.public, dummyResult.document>> \in prohibitCalls

\* prohibit(P1, D1) and prohibit(P2, D2) were called, check(P1, D1) returned
\* Ok(false), and (P1, D2) and (P2, D1) are still allowed.
C7_Witness ==
  /\ prohibitCalls = {<<"P1", "D1">>, <<"P2", "D2">>}
  /\ dummyResult = [public |-> "P1", document |-> "D1", result |-> Ok(FALSE)]
  /\ DummyCheck(prohibited, "P1", "D2") = Ok(TRUE)
  /\ DummyCheck(prohibited, "P2", "D1") = Ok(TRUE)

\* C8: at most one check call is between acquiring the lock and returning.
C8_ChecksSerialized ==
  /\ Cardinality({t \in Threads : pc[t] \in Critical}) <= 1
  /\ \A t \in Threads : pc[t] \in Critical <=> lock = t

\* The binding is resolved, one call is in its remote call and another waits
\* for the lock.
C8_Witness ==
  \E t, u \in Threads :
    /\ pc[t] = "calling" /\ res[t] = "skipped"
    /\ pc[u] = "wait"

\* C9: every started check call returns, and the lock is held only by a call
\* that has not returned yet.
C9_EveryCheckReturns ==
  /\ \A t \in Threads : (pc[t] = "wait") ~> (pc[t] = "done")
  /\ [](\A t \in Threads : lock = t => pc[t] \in Critical)

\* A call returned an Error and another call holds the lock after it.
C9_Witness ==
  \E t, u \in Threads :
    /\ pc[t] = "done" /\ IsErr(result[t]) /\ result[t] # ErrNotConfigured
    /\ pc[u] = "locked"

\* C10: with resolution and transport succeeding and the registry answering
\* from the same denials as the double, every production check returns the
\* Ok(boolean) the double returns for the same (identity, document).
C10_SameDecisionAsDummy ==
  /\ [](\A t \in Threads : pc[t] = "done" => IsOk(result[t]))
  /\ [][\A t \in Threads :
          (pc[t] = "decode" /\ pc'[t] = "done") =>
            /\ dummyResult.public = public[t]
            /\ dummyResult.document = document[t]
            /\ result'[t] = dummyResult.result]_vars

\* Both decisions occur: one call returned Ok(false), another Ok(true), with
\* some but not all pairs denied.
C10_Witness ==
  \E t, u \in Threads :
    /\ pc[t] = "done" /\ result[t] = Ok(FALSE)
    /\ pc[u] = "done" /\ result[u] = Ok(TRUE)
    /\ Cardinality(denied) = 2

\* C11: the function looked up and encoded is checkPermissions(address,
\* bytes32) returning (bool), with the account first and the document second,
\* and the lookup by name never fails.
C11_CanonicalFunction ==
  /\ function("checkPermissions") =
       Ok([name |-> "checkPermissions", inputs |-> <<"address", "bytes32">>,
           outputs |-> <<"bool">>])
  /\ \A t \in Threads :
       /\ pc[t] = "calling" =>
            /\ call[t].data.selector =
                 <<"checkPermissions", <<"address", "bytes32">>>>
            /\ call[t].data.args[1] = public_to_address(public[t])
            /\ call[t].data.args[2] = document[t]
       /\ pc[t] = "done" => result[t] # Err("InvalidName")

\* A call for (P2, D1) is with the ledger.
C11_Witness ==
  \E t \in Threads :
    pc[t] = "calling" /\ public[t] = "P2" /\ document[t] = "D1"

\* C12: every remote call is made at the latest state, to the address held
\* by the binding, with the account and document of the check call that
\* makes it.
C12_CallOfThisCheck ==
  \A t \in Threads :
    pc[t] \in {"calling", "decode"} =>
      /\ contract # Null
      /\ call[t].block = "Latest"
      /\ call[t].address = contract.address
      /\ call[t].data.args = <<public_to_address(public[t]), document[t]>>

\* A call for (P1, D1) is with the ledger while a call for (P2, D2) waits for
\* the lock, and the registry no longer names the binding's address.
C12_Witness ==
  \E t, u \in Threads :
    /\ pc[t] = "calling" /\ public[t] = "P1" /\ document[t] = "D1"
    /\ pc[u] = "wait" /\ public[u] = "P2" /\ document[u] = "D2"
    /\ registrar # contract.address

\* Position of a check call, in program order.
Rank(p) ==
  CASE p = "wait" -> 1
    [] p = "locked" -> 2
    [] p = "resolving" -> 3
    [] p = "dispatch" -> 4
    [] p = "calling" -> 5
    [] p = "decode" -> 6
    [] OTHER -> 7

\* C13: a check call only moves forward, so it resolves at most once and
\* calls the ledger at most once; after a resolution that returned none it
\* returns an Error without a remote call; a failed remote call or decode is
\* returned as an Error at once.
C13_NoRetryWithinCall ==
  [][\A t \in Threads :
       (pc'[t] # pc[t] /\ pc[t] \notin {"idle", "done"}) =>
         /\ Rank(pc'[t]) > Rank(pc[t])
         /\ (pc[t] = "dispatch" /\ res[t] = None) =>
              (pc'[t] = "done" /\ IsErr(result'[t]))
         /\ pc[t] = "decode" =>
              /\ pc'[t] = "done"
              /\ ~out[t].ok => result'[t] = out[t]
              /\ out[t] \in {Ok(<<>>), Ok(<<"wbad">>)} => IsErr(result'[t])]_vars

\* One call has returned a transport Error and another a decoding Error.
C13_Witness ==
  \E t, u \in Threads :
    /\ pc[t] = "done" /\ result[t] = ErrTransport
    /\ pc[u] = "done" /\ result[u] = ErrDecode

C16_DenialsOnlyGrow ==
  /\ [](/\ (dummyResult # Null /\ dummyResult.result = Ok(FALSE)) =>
             DummyCheck(prohibited, dummyResult.public, dummyResult.document)
               = Ok(FALSE)
         /\ \A p \in Publics, d \in Documents :
              /\ DummyProhibit(DummyProhibit(prohibited, p, d), p, d)
                   = DummyProhibit(prohibited, p, d)
              /\ \A q \in Publics, e \in Documents :
                   DummyProhibit(DummyProhibit(prohibited, p, d), q, e)
                     = DummyProhibit(DummyProhibit(prohibited, q, e), p, d))
  /\ [][\A p \in Publics, d \in Documents :
         /\ DummyCheck(prohibited, p, d) = Ok(FALSE) =>
              DummyCheck(prohibited', p, d) = Ok(FALSE)
         /\ p \in DOMAIN prohibited =>
              (p \in DOMAIN prohibited' /\ prohibited[p] \subseteq prohibited'[p])]_vars

\* A check of (P1, D1) has returned Ok(false) and denials of other pairs,
\* of the same identity and of another, have been added around it.
C16_Witness ==
  /\ dummyResult # Null
  /\ dummyResult.public = "P1"
  /\ dummyResult.document = "D1"
  /\ dummyResult.result = Ok(FALSE)
  /\ DOMAIN prohibited = {"P1", "P2"}
  /\ prohibited["P1"] = {"D1", "D2"}

\* C17: a check of the double (a step that sets its result) leaves the
\* denial map as it was.  A step of a production check leaves the client
\* handle, the registry and the double alone, and leaves the binding as it
\* was or takes it from unresolved to resolved (the new binding taking its
\* Weak of the client); the step that returns from check leaves the Mutex
\* free; a return with an Error while the binding is resolved leaves the
\* binding exactly as it was.
C17_CheckChangesOnlyBinding ==
  [][/\ dummyResult' # dummyResult =>
          (prohibited' = prohibited /\ prohibitCalls' = prohibitCalls)
     /\ pc' # pc =>
          /\ contract' = contract \/ (contract = Null /\ contract' # Null)
          /\ weak' = IF contract' = contract THEN weak ELSE weak + 1
          /\ UNCHANGED <<strong, owners, stage, registrar, denied, prohibited,
                         prohibitCalls, dummyResult>>
     /\ \A t \in Threads :
          (pc[t] \in Critical /\ pc'[t] = "done") =>
            /\ lock' = NoThread
            /\ (IsErr(result'[t]) /\ contract # Null) => contract' = contract]_vars

\* With the binding resolved one check has returned a transport Error and
\* another is at the ledger; the double holds denials and has answered a
\* check with Ok(false).
C17_Witness ==
  /\ contract # Null
  /\ \E t, u \in Threads :
       /\ pc[t] = "done" /\ result[t] = ErrTransport
       /\ pc[u] = "calling"
  /\ dummyResult # Null
  /\ dummyResult.result = Ok(FALSE)
  /\ prohibited # EmptyMap

\* C18: under threads a check of the double reads the map only while no
\* prohibit is between its lock and its unlock, so never with an entry still
\* empty, and the map stays as it is while it reads; what it returns is what
\* the denial map determines at the moment it finishes reading, a moment
\* between its call and its return; it returns Ok(false) only for a pair
\* whose prohibit has been called, and a check called after a prohibit of
\* its pair has returned gives Ok(false).
C18_DoubleLinearizable ==
  /\ [](/\ rw.writer # NoThread => rw.readers = {}
         /\ \A t \in Threads :
              /\ dth[t].pc \in {"get", "contains"} =>
                   /\ t \in rw.readers
                   /\ rw.writer = NoThread
                   /\ \A q \in DOMAIN prohibited : prohibited[q] # {}
              /\ (dth[t].op = "check" /\ dth[t].pc \in {"returning", "done"}) =>
                   /\ dth[t].ret \in {Ok(TRUE), Ok(FALSE)}
                   /\ dth[t].before => dth[t].ret = Ok(FALSE))
  /\ [][\A t \in Threads :
         /\ dth[t].pc \in {"get", "contains"} => prohibited' = prohibited
         /\ (dth[t].pc = "contains" /\ dth'[t].pc = "returning") =>
              /\ dth'[t].ret = DummyCheck(prohibited, dth[t].public, dth[t].document)
              /\ dth'[t].ret = Ok(FALSE) =>
                   <<dth[t].public, dth[t].document>> \in prohibitCalls]_vars

\* A check of (P1, D1) has been called and waits for the lock while a
\* prohibit of (P1, D1) holds it, having made the entry of P1 and not yet
\* put D1 in.
C18_Witness ==
  \E t, u \in Threads :
    /\ dth[t].op = "check" /\ dth[t].pc = "wait"
    /\ dth[t].public = "P1" /\ dth[t].document = "D1"
    /\ dth[u].op = "prohibit" /\ dth[u].pc = "insert"
    /\ dth[u].public = "P1" /\ dth[u].document = "D1"
    /\ prohibited["P1"] = {}

====
